---- MODULE Spec2Model ----
(***************************************************************************)
(* Model of the supervision-frontend dashboard: the axios API client       *)
(* (src/lib/api.ts), the React Query hooks (use-performance-data), the two  *)
(* CSV upload cards (CsvUploadCard.tsx) and the query cache they share,     *)
(* the upload store, and the data transforms of the dashboard components    *)
(* (DashboardStats, EntranceRateByGroup, PerformanceLeaderboard).           *)
(*                                                                         *)
(* Text is modelled as a sequence of tokens: a template literal is the      *)
(* concatenation of its pieces, "contains" is a contiguous sub-sequence,    *)
(* the empty sequence is the empty / undefined string (both falsy in JS).   *)
(***************************************************************************)
EXTENDS Integers, Sequences, FiniteSets, TLC

VARIABLES
    apiCall,        \* the API function under call and its inputs (API spec)
    apiResult,      \* what that call returned or threw
    isUploading,    \* CsvUploadCard state, per card
    uploadResult,   \* CsvUploadCard state, per card
    uploadMode,     \* CsvUploadCard state, per card
    pending,        \* per card: the upload awaited by handleFileSelect
    query,          \* query cache: per key the React Query state
    observers,      \* per key: whether a useQuery observer is mounted
    superseded,     \* per key: HTTP requests still outstanding whose result is dropped
    issued,         \* HTTP requests sent by the last handler, in order
    invalidated,    \* query keys passed to invalidateQueries by the last handler
    showUploadCards, \* upload store
    hasData,        \* upload store
    lastStoreCall,  \* the last call made on the upload store
    kpis,           \* the rows the backend answered /api/performance with
    performanceData, \* what usePerformanceData hands to the page (select)
    stats,          \* DashboardStats: the memoised stats
    chartData,      \* EntranceRateByGroup: the memoised chartData
    sortKey,        \* PerformanceLeaderboard state
    sortDirection,  \* PerformanceLeaderboard state
    sortedData,     \* PerformanceLeaderboard: the memoised sortedData
    clicks          \* the column headers the user clicked last (at most two)

storeVars == <<showUploadCards, hasData, lastStoreCall>>

dashVars == <<kpis, performanceData, stats, chartData, sortKey, sortDirection, sortedData>>

viewVars == <<storeVars, dashVars, clicks>>

vars == <<apiCall, apiResult, isUploading, uploadResult, uploadMode, pending,
          query, observers, superseded, issued, invalidated, viewVars>>

apiVars == <<apiCall, apiResult>>
uiVars == <<isUploading, uploadResult, uploadMode, pending, query, observers,
            superseded, issued, invalidated>>

(***************************************************************************)
(* Text helpers                                                            *)
(***************************************************************************)
\* JS `a || b` on strings: the empty / undefined string is falsy.
OrElse(a, b) == IF a # <<>> THEN a ELSE b

\* String.prototype.includes on token sequences.
Contains(s, sub) ==
    \E i \in 1..(Len(s) + 1) :
        /\ i + Len(sub) - 1 <= Len(s)
        /\ SubSeq(s, i, i + Len(sub) - 1) = sub

\* String.prototype.endsWith on token sequences.
EndsWith(s, suffix) ==
    /\ Len(suffix) <= Len(s)
    /\ SubSeq(s, Len(s) - Len(suffix) + 1, Len(s)) = suffix

\* Number -> text, for the numbers that appear in messages.
NumText(n) ==
    CASE n = 30000 -> "30000"
      [] n = 60000 -> "60000"
      [] n = 120000 -> "120000"
      [] n = 500 -> "500"
      [] n = 0 -> "0"
      [] n = 1 -> "1"
      [] n = 2 -> "2"
      [] n = 5 -> "5"
      [] OTHER -> "n"

(***************************************************************************)
(* API client (src/lib/api.ts)                                             *)
(***************************************************************************)
BaseTimeout == 30000

LargeFileBytes == 10 * 1024 * 1024

LargeUploadTimeout == 120000

SmallUploadTimeout == 60000

FetchFunctions == {"fetchContentPerformance", "fetchGroupPerformance"}

UploadFunctions == {"uploadContentPerformanceCSV", "uploadPlayerHistoryCSV"}

\* Backend messages: <<>> is "no message".
BackendMessages == {<<>>, <<"quota exceeded">>}

\* The backend envelope {success, message, data}; data is "null" or names a
\* payload: for a read "empty" ([]) or "rows", for an upload one of the
\* CsvUploadResponse payloads below.
FetchPayloads == {"empty", "rows"}

UploadPayloads == {"clean", "emptyErrors", "rowErrors"}

Envelopes(payloads) ==
    [success : BOOLEAN, message : BackendMessages, data : {"null"} \cup payloads]

NoEnvelope == [success |-> FALSE, message |-> <<>>, data |-> "none"]

\* What the network does with a request.
\*   reply  : an HTTP response with a status and a body (an envelope, or a
\*            body that is no envelope, e.g. a proxy's HTML error page);
\*   timeout: nothing within config.timeout;
\*   network: the connection fails;
\*   abort  : the browser aborts the request.
NetOutcomes(payloads) ==
    [t : {"reply"}, status : {200}, statusText : {<<"OK">>}, body : Envelopes(payloads)]
    \cup [t : {"reply"}, status : {500}, statusText : {<<>>, <<"Internal Server Error">>},
          body : [success : {FALSE}, message : BackendMessages, data : {"null"}]
                 \cup {NoEnvelope}]
    \cup [t : {"timeout", "network", "abort"}, status : {0}, statusText : {<<>>},
          body : {NoEnvelope}]

\* apiClient: every request gets the instance timeout unless the call
\* overrides it.
apiClient == [timeout |-> BaseTimeout]

\* The request a GET sends: no per-call timeout, so the instance default.
GetRequest(url) ==
    [method |-> "GET", url |-> url, formData |-> <<>>, timeout |-> apiClient.timeout]

\* axios: settle a request against the network. A 2xx reply resolves with
\* the body; anything else rejects with an AxiosError {code, message,
\* response}. The response interceptor passes errors through unchanged.
Axios(request, net) ==
    IF net.t = "reply" /\ net.status >= 200 /\ net.status < 300
    THEN [resolved |-> TRUE, data |-> net.body, code |-> "", message |-> <<>>,
          hasResponse |-> TRUE, statusText |-> net.statusText]
    ELSE IF net.t = "reply"
    THEN [resolved |-> FALSE, data |-> net.body, code |-> "ERR_BAD_RESPONSE",
          message |-> <<"Request failed with status code ", NumText(net.status)>>,
          hasResponse |-> TRUE, statusText |-> net.statusText]
    ELSE IF net.t = "timeout"
    THEN [resolved |-> FALSE, data |-> NoEnvelope, code |-> "ECONNABORTED",
          message |-> <<"timeout of ", NumText(request.timeout), "ms exceeded">>,
          hasResponse |-> FALSE, statusText |-> <<>>]
    ELSE IF net.t = "abort"
    THEN [resolved |-> FALSE, data |-> NoEnvelope, code |-> "ECONNABORTED",
          message |-> <<"Request aborted">>,
          hasResponse |-> FALSE, statusText |-> <<>>]
    ELSE [resolved |-> FALSE, data |-> NoEnvelope, code |-> "ERR_NETWORK",
          message |-> <<"Network Error">>,
          hasResponse |-> FALSE, statusText |-> <<>>]

\* error.response?.data?.message
ResponseMessage(err) == IF err.hasResponse THEN err.data.message ELSE <<>>

Returned(data) == [ok |-> TRUE, data |-> data, message |-> <<>>]

Thrown(message) == [ok |-> FALSE, data |-> "none", message |-> message]

FetchUnwrapDropsBackendMessage(label, r) ==
    IF r.resolved
    THEN IF ~r.data.success \/ r.data.data = "null"
         THEN Thrown(OrElse(r.data.message, <<"Failed to fetch ", label>>))
         ELSE Returned(r.data.data)
    ELSE Thrown(<<"Failed to fetch ", label, ": ">> \o r.message)

\* The body shared by the two fetch functions: unwrap the envelope, throw
\* its message (or the default) on failure, wrap an AxiosError's message.
FetchUnwrap(label, r) ==
    IF r.resolved
    THEN IF ~r.data.success \/ r.data.data = "null"
         THEN Thrown(OrElse(r.data.message, <<"Failed to fetch ", label>>))
         ELSE Returned(r.data.data)
    ELSE Thrown(<<"Failed to fetch ", label, ": ">>
                \o OrElse(ResponseMessage(r), r.message))

fetchContentPerformance(net) ==
    FetchUnwrap("performance data", Axios(GetRequest("/api/performance"), net))

fetchGroupPerformance(net) ==
    FetchUnwrap("group performance data",
                Axios(GetRequest("/api/performance/group"), net))

\* fetchDatasetStatus(dataset): a plain GET of /api/dataset-status with the
\* client's defaults, unwrapped like the other reads.
fetchDatasetStatus(net) ==
    FetchUnwrap("dataset status", Axios(GetRequest("/api/dataset-status"), net))

\* Files the user can pick: a name (one token per character) and a size.
CsvSuffix == <<".", "c", "s", "v">>

FileNames ==
    { <<"a">> \o CsvSuffix,                     \* a.csv
      <<"a", ".", "t", "x", "t">>,              \* a.txt
      <<"a">> \o CsvSuffix \o <<".", "b">>,     \* a.csv.b
      <<"a", ".", "C", "S", "V">>,              \* a.CSV
      <<"c", "s", "v">> }                       \* csv

FileSizes == {0, LargeFileBytes - 1, LargeFileBytes, LargeFileBytes + 1}

Files == [name : FileNames, size : FileSizes]

\* timeout: file.size > 10 * 1024 * 1024 ? 120000 : 60000
UploadTimeoutAtThreshold(size) ==
    IF size >= LargeFileBytes THEN LargeUploadTimeout ELSE SmallUploadTimeout

UploadTimeoutDoubleBase(size) ==
    IF size > LargeFileBytes THEN 2 * apiClient.timeout ELSE SmallUploadTimeout

UploadTimeout(size) ==
    IF size > LargeFileBytes THEN LargeUploadTimeout ELSE SmallUploadTimeout

\* The POST an upload function sends: formData holds the single field
\* `file`; the function has no options parameter, so nothing else is added.
UploadRequest(url, file) ==
    [method |-> "POST", url |-> url, formData |-> <<[field |-> "file", value |-> file.name]>>,
     timeout |-> UploadTimeout(file.size)]

UploadTimeoutMessage ==
    <<"Upload timeout: File is too large or connection is too slow. ",
      "Please try a smaller file or check your connection.">>

\* The catch block of an upload function, for an AxiosError.
UploadErrorNoTimeoutBranch(label, err) ==
    Thrown(<<"Failed to upload ", label, ": ">>
           \o OrElse(err.statusText, <<"Unknown error">>) \o <<". ">>
           \o OrElse(ResponseMessage(err), err.message))

UploadError(label, err) ==
    IF err.code = "ECONNABORTED"
    THEN Thrown(UploadTimeoutMessage)
    ELSE Thrown(<<"Failed to upload ", label, ": ">>
                \o OrElse(err.statusText, <<"Unknown error">>) \o <<". ">>
                \o OrElse(ResponseMessage(err), err.message))

\* The body shared by the two upload functions.
UploadUnwrap(label, r) ==
    IF r.resolved
    THEN IF ~r.data.success \/ r.data.data = "null"
         THEN Thrown(OrElse(r.data.message, <<"Failed to upload ", label>>))
         ELSE Returned(r.data.data)
    ELSE UploadError(label, r)

uploadContentPerformanceCSV(file, net) ==
    UploadUnwrap("content performance CSV",
                 Axios(UploadRequest("/api/process-csv/content-perf", file), net))

uploadPlayerHistoryCSV(file, net) ==
    UploadUnwrap("player history CSV",
                 Axios(UploadRequest("/api/process-csv/player-history", file), net))

\* The request each API function sends.
RequestOf(fn, file) ==
    CASE fn = "fetchContentPerformance" -> GetRequest("/api/performance")
      [] fn = "fetchGroupPerformance" -> GetRequest("/api/performance/group")
      [] fn = "fetchDatasetStatus" -> GetRequest("/api/dataset-status")
      [] fn = "uploadContentPerformanceCSV" ->
            UploadRequest("/api/process-csv/content-perf", file)
      [] fn = "uploadPlayerHistoryCSV" ->
            UploadRequest("/api/process-csv/player-history", file)

\* What each API function returns or throws.
CallApi(fn, file, net) ==
    CASE fn = "fetchContentPerformance" -> fetchContentPerformance(net)
      [] fn = "fetchGroupPerformance" -> fetchGroupPerformance(net)
      [] fn = "fetchDatasetStatus" -> fetchDatasetStatus(net)
      [] fn = "uploadContentPerformanceCSV" -> uploadContentPerformanceCSV(file, net)
      [] fn = "uploadPlayerHistoryCSV" -> uploadPlayerHistoryCSV(file, net)

ApiFunctions == FetchFunctions \cup UploadFunctions \cup {"fetchDatasetStatus"}

NoCall == [fn |-> "none", file |-> [name |-> <<>>, size |-> 0],
           net |-> [t |-> "none", status |-> 0, statusText |-> <<>>, body |-> NoEnvelope],
           done |-> FALSE]

NoResult == [request |-> GetRequest(""), result |-> Thrown(<<>>)]

(***************************************************************************)
(* API specification: one call of one API function on inputs drawn from    *)
(* the bounded sets above.                                                 *)
(***************************************************************************)
ApiInputs ==
    [fn : FetchFunctions \cup {"fetchDatasetStatus"},
     file : {[name |-> <<>>, size |-> 0]}, net : NetOutcomes(FetchPayloads),
     done : {FALSE}]
    \cup [fn : UploadFunctions,
          file : [name : {<<"a">> \o CsvSuffix}, size : FileSizes],
          net : NetOutcomes(UploadPayloads), done : {FALSE}]

\* The call runs: it sends its request and returns or throws.
ApiRun ==
    /\ ~apiCall.done
    /\ apiCall.fn \in ApiFunctions
    /\ apiCall' = [apiCall EXCEPT !.done = TRUE]
    /\ apiResult' = [request |-> RequestOf(apiCall.fn, apiCall.file),
                     result |-> CallApi(apiCall.fn, apiCall.file, apiCall.net)]
    /\ UNCHANGED <<uiVars, viewVars>>

(***************************************************************************)
(* Query cache (React Query) as configured by the hooks                    *)
(***************************************************************************)
Cards == {"content-performance", "player-history"}

StatusKey(c) ==
    IF c = "content-performance" THEN "dataset-status/content-performance"
    ELSE "dataset-status/player-history"

PerformanceKeys == {"performance", "group-performance"}

Keys == PerformanceKeys \cup {StatusKey(c) : c \in Cards}

\* staleTime of the three useQuery calls.
staleTime == 30000

refetchOnWindowFocusDefault(k) == TRUE

\* refetchOnWindowFocus: false in the two performance hooks; the
\* dataset-status query leaves the default (true).
refetchOnWindowFocus(k) == k \notin PerformanceKeys

\* retry is set by no useQuery call: the library default of 3 retries.
retry == 3

\* Clock step of the model and the cap on superseded requests counted.
TickMs == 15000

MaxSuperseded == 1

NoQuery ==
    [status |-> "pending", fetchStatus |-> "idle", data |-> "none", age |-> -1,
     isInvalidated |-> FALSE, fetchFailureCount |-> 0]

\* A query is in the cache once an observer has created it.
Exists(q) == ~(q.status = "pending" /\ q.fetchStatus = "idle")

IsStaleWithoutStaleTime(q) == q.isInvalidated \/ q.data = "none" \/ q.age >= 0

\* isStaleByTime(staleTime)
IsStale(q) == q.isInvalidated \/ q.data = "none" \/ q.age >= staleTime

\* The state machine of the spec, read off the query state.
Phase(q) ==
    IF q.fetchStatus = "fetching" THEN "loading"
    ELSE IF q.status = "pending" THEN "idle"
    ELSE q.status

queryFn(k, net) ==
    CASE k = "performance" -> fetchContentPerformance(net)
      [] k = "group-performance" -> fetchGroupPerformance(net)
      [] OTHER -> fetchDatasetStatus(net)

Min(a, b) == IF a < b THEN a ELSE b

\* The cache state a handler works on: st.issued collects the requests it sends.
CacheNow == [query |-> query, superseded |-> superseded, issued |-> <<>>]

FetchQueryNoDedup(st, k, cancelRefetch) ==
    LET q == st.query[k]
        started == [q EXCEPT !.fetchStatus = "fetching", !.fetchFailureCount = 0,
                             !.status = IF q.data = "none" THEN "pending" ELSE q.status]
    IN  IF q.fetchStatus = "fetching"
        THEN [query |-> [st.query EXCEPT ![k] = started],
              superseded |-> [st.superseded EXCEPT
                                ![k] = Min(st.superseded[k] + 1, MaxSuperseded)],
              issued |-> Append(st.issued, k)]
        ELSE [st EXCEPT !.query[k] = started, !.issued = Append(st.issued, k)]

\* query.fetch(): a fetch already in flight is reused, unless the caller
\* passes cancelRefetch and the query has data: then the running fetch is
\* cancelled silently (its HTTP request stays outstanding, the queryFn
\* takes no abort signal) and a new request is sent.
FetchQuery(st, k, cancelRefetch) ==
    LET q == st.query[k]
        started == [q EXCEPT !.fetchStatus = "fetching", !.fetchFailureCount = 0,
                             !.status = IF q.data = "none" THEN "pending" ELSE q.status]
    IN  IF q.fetchStatus = "fetching"
        THEN IF q.data # "none" /\ cancelRefetch
             THEN [query |-> [st.query EXCEPT ![k] = started],
                   superseded |-> [st.superseded EXCEPT
                                     ![k] = Min(st.superseded[k] + 1, MaxSuperseded)],
                   issued |-> Append(st.issued, k)]
             ELSE st
        ELSE [st EXCEPT !.query[k] = started, !.issued = Append(st.issued, k)]

\* queryClient.invalidateQueries({ queryKey }): every cached query under the
\* key is marked invalidated; those with an observer are refetched at once
\* (refetchType 'active', cancelRefetch true).
InvalidateNoRefetch(st, k, obs) ==
    IF Exists(st.query[k])
    THEN [st EXCEPT !.query[k].isInvalidated = TRUE]
    ELSE st

InvalidateQueries(st, k, obs) ==
    IF Exists(st.query[k])
    THEN LET marked == [st EXCEPT !.query[k].isInvalidated = TRUE]
         IN  IF obs[k] THEN FetchQuery(marked, k, TRUE) ELSE marked
    ELSE st

Commit(st) ==
    /\ query' = st.query
    /\ superseded' = st.superseded
    /\ issued' = st.issued

\* useQuery mounts (a consumer reads the key): it fetches when there is no
\* data yet or the data is stale, and joins a fetch already in flight.
Read(k) ==
    /\ observers' = [observers EXCEPT ![k] = TRUE]
    /\ Commit(IF IsStale(query[k]) THEN FetchQuery(CacheNow, k, FALSE) ELSE CacheNow)
    /\ invalidated' = <<>>
    /\ UNCHANGED <<viewVars, apiCall, apiResult, isUploading, uploadResult, uploadMode, pending>>

\* The last consumer of the key unmounts.
Unmount(k) ==
    /\ observers[k]
    /\ observers' = [observers EXCEPT ![k] = FALSE]
    /\ issued' = <<>>
    /\ invalidated' = <<>>
    /\ UNCHANGED <<viewVars, apiCall, apiResult, isUploading, uploadResult, uploadMode, pending, query, superseded>>

\* The request of the running fetch settles. A failure is retried while
\* fewer than `retry` failures were counted and an observer is mounted;
\* otherwise it becomes the query's error.
FetchSettleNoRetry(k, net) ==
    /\ query[k].fetchStatus = "fetching"
    /\ LET res == queryFn(k, net)
           q == query[k]
       IN  /\ query' = [query EXCEPT ![k] =
                IF res.ok
                THEN [status |-> "success", fetchStatus |-> "idle", data |-> res.data,
                      age |-> 0, isInvalidated |-> FALSE, fetchFailureCount |-> 0]
                ELSE [q EXCEPT !.status = "error", !.fetchStatus = "idle",
                               !.fetchFailureCount = q.fetchFailureCount + 1]]
           /\ issued' = <<>>
    /\ invalidated' = <<>>
    /\ UNCHANGED <<viewVars, apiCall, apiResult, isUploading, uploadResult, uploadMode, pending, observers, superseded>>

FetchSettle(k, net) ==
    /\ query[k].fetchStatus = "fetching"
    /\ LET res == queryFn(k, net)
           q == query[k]
       IN  IF res.ok
           THEN /\ query' = [query EXCEPT ![k] =
                     [status |-> "success", fetchStatus |-> "idle", data |-> res.data,
                      age |-> 0, isInvalidated |-> FALSE, fetchFailureCount |-> 0]]
                /\ issued' = <<>>
           ELSE IF q.fetchFailureCount < retry /\ observers[k]
           THEN /\ query' = [query EXCEPT
                               ![k].fetchFailureCount = q.fetchFailureCount + 1]
                /\ issued' = <<k>>
           ELSE /\ query' = [query EXCEPT ![k] =
                     [q EXCEPT !.status = "error", !.fetchStatus = "idle",
                               !.fetchFailureCount = q.fetchFailureCount + 1]]
                /\ issued' = <<>>
    /\ invalidated' = <<>>
    /\ UNCHANGED <<viewVars, apiCall, apiResult, isUploading, uploadResult, uploadMode, pending, observers, superseded>>

\* A request whose fetch was cancelled settles: its result is dropped.
SupersededSettle(k) ==
    /\ superseded[k] > 0
    /\ superseded' = [superseded EXCEPT ![k] = superseded[k] - 1]
    /\ issued' = <<>>
    /\ invalidated' = <<>>
    /\ UNCHANGED <<viewVars, apiCall, apiResult, isUploading, uploadResult, uploadMode, pending, query, observers>>

RECURSIVE RefetchAll(_, _)
\* observer.refetch({ cancelRefetch: false }) for each key of a sequence.
RefetchAll(st, ks) ==
    IF ks = <<>> THEN st
    ELSE RefetchAll(FetchQuery(st, Head(ks), FALSE), Tail(ks))

KeyOrder ==
    <<"performance", "group-performance",
      "dataset-status/content-performance", "dataset-status/player-history">>

\* focusManager: the window regains focus; each observed, stale query whose
\* refetchOnWindowFocus is not false refetches.
OnFocusKeys ==
    SelectSeq(KeyOrder, LAMBDA k : observers[k] /\ refetchOnWindowFocus(k)
                                     /\ IsStale(query[k]))

WindowFocus ==
    /\ Commit(RefetchAll(CacheNow, OnFocusKeys))
    /\ invalidated' = <<>>
    /\ UNCHANGED <<viewVars, apiCall, apiResult, isUploading, uploadResult, uploadMode, pending, observers>>

\* onlineManager: the network comes back; each observed, stale query
\* refetches (refetchOnReconnect is left at its default).
Reconnect ==
    /\ Commit(RefetchAll(CacheNow,
                SelectSeq(KeyOrder, LAMBDA k : observers[k] /\ IsStale(query[k]))))
    /\ invalidated' = <<>>
    /\ UNCHANGED <<viewVars, apiCall, apiResult, isUploading, uploadResult, uploadMode, pending, observers>>

\* Time passes: cached data ages (the age saturates at staleTime, beyond
\* which only "stale" matters).
Tick ==
    /\ \E k \in Keys : query[k].data # "none" /\ query[k].age < staleTime
    /\ query' = [k \in Keys |->
                   IF query[k].data # "none"
                   THEN [query[k] EXCEPT !.age = Min(query[k].age + TickMs, staleTime)]
                   ELSE query[k]]
    /\ issued' = <<>>
    /\ invalidated' = <<>>
    /\ UNCHANGED <<viewVars, apiCall, apiResult, isUploading, uploadResult, uploadMode, pending, observers, superseded>>

\* An unobserved, settled query is garbage-collected once it has been left
\* alone long enough (here: once its data, if any, has aged out).
Gc(k) ==
    /\ ~observers[k]
    /\ Exists(query[k])
    /\ query[k].fetchStatus = "idle"
    /\ query[k].data # "none" => query[k].age >= staleTime
    /\ query' = [query EXCEPT ![k] = NoQuery]
    /\ issued' = <<>>
    /\ invalidated' = <<>>
    /\ UNCHANGED <<viewVars, apiCall, apiResult, isUploading, uploadResult, uploadMode, pending, observers, superseded>>

(***************************************************************************)
(* CsvUploadCard                                                           *)
(***************************************************************************)
UploadModes == {"replace", "append"}

NoResultShown == [shown |-> FALSE, success |-> FALSE, message |-> <<>>, details |-> <<>>]

Shown(success, message, details) ==
    [shown |-> TRUE, success |-> success, message |-> message, details |-> details]

NoPending == [active |-> FALSE, request |-> GetRequest(""), uploadMode |-> "replace"]

\* config[type]: the upload URL and the label of the card's uploadFn.
UploadUrl(c) ==
    IF c = "content-performance" THEN "/api/process-csv/content-perf"
    ELSE "/api/process-csv/player-history"

UploadLabel(c) ==
    IF c = "content-performance" THEN "content performance CSV"
    ELSE "player history CSV"

\* currentConfig.uploadFn(file, { mode: uploadMode }): the request the API
\* function sends. The function takes the file only; the options argument
\* is not read.
uploadFn(c, file, options) == UploadRequest(UploadUrl(c), file)

\* The CsvUploadResponse payloads the backend can answer with.
Payload(tag) ==
    CASE tag = "clean" ->
            [recordsProcessed |-> 2, errors |-> <<>>, databaseRecords |-> 5,
             lastUpdatedAt |-> <<"t0">>]
      [] tag = "emptyErrors" ->
            [recordsProcessed |-> 2, errors |-> <<>>, databaseRecords |-> 5,
             lastUpdatedAt |-> <<>>]
      [] OTHER ->
            [recordsProcessed |-> 1, errors |-> <<"row 2: bad rate">>, databaseRecords |-> 5,
             lastUpdatedAt |-> <<>>]

SuccessResultNoWarning(result, mode) ==
    Shown(TRUE,
          <<"Successfully uploaded ", NumText(result.recordsProcessed),
            " record(s) using ", mode, " mode">>,
          <<"Database now stores ", NumText(result.databaseRecords), " record(s).">>
          \o (IF result.lastUpdatedAt # <<>>
              THEN <<"Last updated at ">> \o result.lastUpdatedAt
              ELSE <<>>))

\* The result the card shows for a successful upload.
SuccessResult(result, mode) ==
    LET hasErrors == Len(result.errors) > 0
        detailParts ==
            (IF hasErrors
             THEN <<NumText(Len(result.errors)),
                    " row(s) were skipped due to validation errors.">>
             ELSE <<>>)
            \o <<"Database now stores ", NumText(result.databaseRecords), " record(s).">>
            \o (IF result.lastUpdatedAt # <<>>
                THEN <<"Last updated at ">> \o result.lastUpdatedAt
                ELSE <<>>)
    IN  Shown(TRUE,
              IF hasErrors
              THEN <<"Upload completed (", mode, " mode): ",
                     NumText(result.recordsProcessed),
                     " record(s) processed successfully">>
              ELSE <<"Successfully uploaded ", NumText(result.recordsProcessed),
                     " record(s) using ", mode, " mode">>,
              detailParts)

InvalidFileResult == Shown(FALSE, <<"Invalid file type">>, <<"Please select a CSV file.">>)

\* file.name.endsWith(".csv")
IsCsvNameContains(name) == Contains(name, CsvSuffix)

IsCsvName(name) == EndsWith(name, CsvSuffix)

NoFile == [name |-> <<>>, size |-> -1]

InvalidatedKeysWithoutGroup(c) == <<"performance", StatusKey(c)>>

InvalidatedKeysEveryStatus(c) ==
    <<"performance", "group-performance", StatusKey("content-performance"),
      StatusKey("player-history")>>

\* The keys handleFileSelect invalidates after a successful upload, in order.
InvalidatedKeys(c) == <<"performance", "group-performance", StatusKey(c)>>

RECURSIVE InvalidateAll(_, _, _)
InvalidateAll(st, ks, obs) ==
    IF ks = <<>> THEN st
    ELSE InvalidateAll(InvalidateQueries(st, Head(ks), obs), Tail(ks), obs)

HandleFileSelectInvalidatesFirst(c, file) ==
    /\ ~isUploading[c]
    /\ IF file = NoFile
       THEN /\ issued' = <<>>
            /\ invalidated' = <<>>
            /\ UNCHANGED <<isUploading, uploadResult, pending, query, superseded>>
       ELSE IF ~IsCsvName(file.name)
       THEN /\ uploadResult' = [uploadResult EXCEPT ![c] = InvalidFileResult]
            /\ issued' = <<>>
            /\ invalidated' = <<>>
            /\ UNCHANGED <<isUploading, pending, query, superseded>>
       ELSE /\ isUploading' = [isUploading EXCEPT ![c] = TRUE]
            /\ uploadResult' = [uploadResult EXCEPT ![c] = NoResultShown]
            /\ pending' = [pending EXCEPT ![c] =
                  [active |-> TRUE,
                   request |-> uploadFn(c, file, [mode |-> uploadMode[c]]),
                   uploadMode |-> uploadMode[c]]]
            /\ LET st == InvalidateAll(CacheNow, InvalidatedKeys(c), observers)
               IN  Commit([st EXCEPT !.issued = <<UploadUrl(c)>> \o st.issued])
            /\ invalidated' = InvalidatedKeys(c)
    /\ UNCHANGED <<viewVars, apiCall, apiResult, uploadMode, observers>>

\* handleFileSelect up to its await: no file -> a toast only; a name not
\* ending in ".csv" -> the validation result; otherwise the upload starts.
\* The file input is disabled while isUploading.
HandleFileSelect(c, file) ==
    /\ ~isUploading[c]
    /\ invalidated' = <<>>
    /\ IF file = NoFile
       THEN /\ issued' = <<>>
            /\ UNCHANGED <<isUploading, uploadResult, pending>>
       ELSE IF ~IsCsvName(file.name)
       THEN /\ uploadResult' = [uploadResult EXCEPT ![c] = InvalidFileResult]
            /\ issued' = <<>>
            /\ UNCHANGED <<isUploading, pending>>
       ELSE /\ isUploading' = [isUploading EXCEPT ![c] = TRUE]
            /\ uploadResult' = [uploadResult EXCEPT ![c] = NoResultShown]
            /\ pending' = [pending EXCEPT ![c] =
                  [active |-> TRUE,
                   request |-> uploadFn(c, file, [mode |-> uploadMode[c]]),
                   uploadMode |-> uploadMode[c]]]
            /\ issued' = <<UploadUrl(c)>>
    /\ UNCHANGED <<viewVars, apiCall, apiResult, uploadMode, query, observers, superseded>>

UploadSettleNoFinally(c, net) ==
    /\ pending[c].active
    /\ LET res == UploadUnwrap(UploadLabel(c), Axios(pending[c].request, net))
       IN  IF res.ok
           THEN /\ uploadResult' = [uploadResult EXCEPT ![c] =
                      SuccessResult(Payload(res.data), pending[c].uploadMode)]
                /\ Commit(InvalidateAll(CacheNow, InvalidatedKeys(c), observers))
                /\ invalidated' = InvalidatedKeys(c)
                /\ isUploading' = [isUploading EXCEPT ![c] = FALSE]
           ELSE /\ uploadResult' = [uploadResult EXCEPT ![c] =
                      Shown(FALSE, <<"Upload failed">>, res.message)]
                /\ invalidated' = <<>>
                /\ issued' = <<>>
                /\ UNCHANGED <<isUploading, query, superseded>>
    /\ pending' = [pending EXCEPT ![c] = NoPending]
    /\ UNCHANGED <<viewVars, apiCall, apiResult, uploadMode, observers>>

\* handleFileSelect after its await: the upload returned or threw.
UploadSettle(c, net) ==
    /\ pending[c].active
    /\ LET res == UploadUnwrap(UploadLabel(c), Axios(pending[c].request, net))
       IN  IF res.ok
           THEN /\ uploadResult' = [uploadResult EXCEPT ![c] =
                      SuccessResult(Payload(res.data), pending[c].uploadMode)]
                /\ Commit(InvalidateAll(CacheNow, InvalidatedKeys(c), observers))
                /\ invalidated' = InvalidatedKeys(c)
           ELSE /\ uploadResult' = [uploadResult EXCEPT ![c] =
                      Shown(FALSE, <<"Upload failed">>, res.message)]
                /\ invalidated' = <<>>
                /\ issued' = <<>>
                /\ UNCHANGED <<query, superseded>>
    /\ isUploading' = [isUploading EXCEPT ![c] = FALSE]
    /\ pending' = [pending EXCEPT ![c] = NoPending]
    /\ UNCHANGED <<viewVars, apiCall, apiResult, uploadMode, observers>>

SetUploadModeWhileUploading(c, m) ==
    /\ uploadMode[c] # m
    /\ uploadMode' = [uploadMode EXCEPT ![c] = m]
    /\ issued' = <<>>
    /\ invalidated' = <<>>
    /\ UNCHANGED <<viewVars, apiCall, apiResult, isUploading, uploadResult, pending, query,
                   observers, superseded>>

\* handleReplaceMode / handleAppendMode: the buttons are disabled while
\* isUploading.
SetUploadMode(c, m) ==
    /\ ~isUploading[c]
    /\ uploadMode[c] # m
    /\ uploadMode' = [uploadMode EXCEPT ![c] = m]
    /\ issued' = <<>>
    /\ invalidated' = <<>>
    /\ UNCHANGED <<viewVars, apiCall, apiResult, isUploading, uploadResult, pending, query,
                   observers, superseded>>

\* handleDismissResult
DismissResult(c) ==
    /\ uploadResult[c].shown
    /\ uploadResult' = [uploadResult EXCEPT ![c] = NoResultShown]
    /\ issued' = <<>>
    /\ invalidated' = <<>>
    /\ UNCHANGED <<viewVars, apiCall, apiResult, isUploading, uploadMode, pending, query,
                   observers, superseded>>

\* The alert the card renders for uploadResult: nothing for null; otherwise
\* the variant and icon chosen from success and details, the message as the
\* title and the details, when there are any, as the description.
NoAlert ==
    [rendered |-> FALSE, variant |-> "", icon |-> "", title |-> <<>>, description |-> <<>>]

Alert(result) ==
    IF ~result.shown THEN NoAlert
    ELSE [rendered |-> TRUE,
          variant |-> IF result.success THEN "default" ELSE "destructive",
          icon |-> IF result.success
                   THEN IF result.details # <<>> THEN "AlertTriangle" ELSE "CheckCircle2"
                   ELSE "XCircle",
          title |-> result.message,
          description |-> result.details]

(***************************************************************************)
(* Upload store (src/store/upload-store.ts)                                *)
(***************************************************************************)
NoStoreCall == [fn |-> "none", arg |-> FALSE]

\* create<UploadState>(...): the initial state.
StoreInit ==
    /\ showUploadCards = TRUE
    /\ hasData = FALSE
    /\ lastStoreCall = NoStoreCall

\* setShowUploadCards: (show) => set({ showUploadCards: show })
setShowUploadCards(show) ==
    /\ showUploadCards' = show
    /\ lastStoreCall' = [fn |-> "setShowUploadCards", arg |-> show]
    /\ UNCHANGED hasData

setHasDataKeepsCards(b) ==
    /\ hasData' = b
    /\ lastStoreCall' = [fn |-> "setHasData", arg |-> b]
    /\ UNCHANGED showUploadCards

\* setHasData: (hasData) => set({ hasData, showUploadCards: !hasData })
setHasData(b) ==
    /\ hasData' = b
    /\ showUploadCards' = ~b
    /\ lastStoreCall' = [fn |-> "setHasData", arg |-> b]

(***************************************************************************)
(* Numbers and strings of the dashboard data                               *)
(*                                                                         *)
(* A rate is an exact fraction [n, d] in lowest terms (d > 0); NaN is the  *)
(* result of 0 / 0. A string is the sequence of its UTF-16 code units, so  *)
(* that `<` on strings is the lexicographic order JS uses.                  *)
(***************************************************************************)
RECURSIVE Gcd(_, _)
Gcd(a, b) == IF b = 0 THEN a ELSE Gcd(b, a % b)

Abs(x) == IF x < 0 THEN -x ELSE x

Num(n, d) ==
    LET g == Gcd(Abs(n), d)
    IN  [n |-> n \div g, d |-> d \div g]

NaN == [n |-> 0, d |-> 0]

IsNaN(a) == a.d = 0

NumAdd(a, b) ==
    IF IsNaN(a) \/ IsNaN(b) THEN NaN ELSE Num(a.n * b.d + b.n * a.d, a.d * b.d)

\* a / k for a count k >= 0; the only division by 0 the code can make is
\* that of the empty sum: 0 / 0.
NumDiv(a, k) ==
    IF IsNaN(a) \/ k = 0 THEN NaN ELSE Num(a.n, a.d * k)

NumTimes(a, k) == IF IsNaN(a) THEN NaN ELSE Num(a.n * k, a.d)

\* a < b on numbers: false when either side is NaN.
NumLess(a, b) == ~IsNaN(a) /\ ~IsNaN(b) /\ a.n * b.d < b.n * a.d

\* a < b on strings.
StrLess(a, b) ==
    \E i \in 1..(Len(a) + 1) :
        /\ i <= Len(b)
        /\ \A j \in 1..(i - 1) : a[j] = b[j]
        /\ i = Len(a) + 1 \/ a[i] < b[i]

(***************************************************************************)
(* Data transforms: use-performance-data, DashboardStats,                  *)
(* EntranceRateByGroup, PerformanceLeaderboard                             *)
(***************************************************************************)
Grades == {"S", "A", "B", "C", "D"}

\* Rows a backend can answer with: ContentPerformanceKPI declares
\* performance_grade as a string, so a grade outside Grades is possible.
Kpi(id, title, group, impressions, attention, entrance, grade) ==
    [content_id |-> id, title |-> title, content_group |-> group,
     total_impressions |-> impressions, attention_rate |-> attention,
     entrance_rate |-> entrance, performance_grade |-> grade]

Kpis ==
    { Kpi("c1", <<97>>,     <<103, 49>>, 10, Num(1, 2),  Num(3, 10), "S"),
      Kpi("c2", <<66>>,     <<103, 49>>, 25, Num(3, 10), Num(1, 2),  "D"),
      Kpi("c3", <<97>>,     <<103, 50>>, 10, Num(1, 2),  Num(3, 10), "A"),
      Kpi("c4", <<97, 98>>, <<103, 51>>, 0,  Num(0, 1),  Num(1, 10), "E") }

MaxRows == 3

RowSeqs == UNION { [1..n -> Kpis] : n \in 0..MaxRows }

\* convertToAdPerformanceData: the seven fields are copied; the grade is
\* cast (`as 'S' | 'A' | 'B' | 'C' | 'D'`), which checks nothing at run time.
convertToAdPerformanceData(kpi) ==
    [content_id |-> kpi.content_id,
     title |-> kpi.title,
     content_group |-> kpi.content_group,
     total_impressions |-> kpi.total_impressions,
     attention_rate |-> kpi.attention_rate,
     entrance_rate |-> kpi.entrance_rate,
     performance_grade |-> kpi.performance_grade]

\* select: (data) => data.map(convertToAdPerformanceData)
select(rows) == [i \in 1..Len(rows) |-> convertToAdPerformanceData(rows[i])]

RECURSIVE SumInt(_, _)
\* data.reduce((sum, item) => sum + item[field], 0) on integers
SumInt(data, field) ==
    IF data = <<>> THEN 0
    ELSE SumInt(SubSeq(data, 1, Len(data) - 1), field) + data[Len(data)][field]

RECURSIVE SumNum(_, _)
\* the same reduce on rates
SumNum(data, field) ==
    IF data = <<>> THEN Num(0, 1)
    ELSE NumAdd(SumNum(SubSeq(data, 1, Len(data) - 1), field), data[Len(data)][field])

\* Array.prototype.sort(comparefn). ECMAScript: with a consistent comparator
\* the result is the stable sorted permutation; otherwise the order is
\* implementation-defined (any permutation).
Injections(n) == { p \in [1..n -> 1..n] : \A i, j \in 1..n : p[i] = p[j] => i = j }

Permuted(seq, p) == [i \in 1..Len(seq) |-> seq[p[i]]]

\* ECMAScript's "consistent comparator", on the comparator's results
\* c[i, j] for the elements at positions i and j.
Consistent(c, n) ==
    \A i, j, k \in 1..n :
        /\ c[i, i] = 0
        /\ (c[i, j] < 0) = (c[j, i] > 0)
        /\ (c[i, j] = 0 /\ c[j, k] = 0) => c[i, k] = 0
        /\ (c[i, j] < 0 /\ c[j, k] < 0) => c[i, k] < 0
        /\ (c[i, j] = 0 /\ c[j, k] < 0) => c[i, k] < 0
        /\ (c[i, j] < 0 /\ c[j, k] = 0) => c[i, k] < 0

\* The stable sorted order: sorted by the comparator, equal elements in
\* their input order.
StableOrder(c, n) ==
    CHOOSE q \in Injections(n) :
        \A i, j \in 1..n :
            i < j => \/ c[q[i], q[j]] < 0
                     \/ c[q[i], q[j]] = 0 /\ q[i] < q[j]

\* seq.sort(comparefn), c[i, j] being comparefn(seq[i], seq[j]).
SortOutcomes(seq, c) ==
    LET n == Len(seq)
    IN  IF Consistent(c, n)
        THEN {Permuted(seq, StableOrder(c, n))}
        ELSE { Permuted(seq, p) : p \in Injections(n) }

DashboardStatsUnscaled(data) ==
    [totalImpressions |-> SumInt(data, "total_impressions"),
     avgAttention |-> NumDiv(SumNum(data, "attention_rate"), Len(data)),
     avgEntrance |-> NumDiv(SumNum(data, "entrance_rate"), Len(data)),
     topPerformers |->
        Cardinality({ i \in 1..Len(data) : data[i].performance_grade \in {"S", "A"} })]

\* DashboardStats: stats
DashboardStats(data) ==
    LET totalImpressions == SumInt(data, "total_impressions")
        avgAttention == NumDiv(SumNum(data, "attention_rate"), Len(data))
        avgEntrance == NumDiv(SumNum(data, "entrance_rate"), Len(data))
        topPerformers ==
            Cardinality({ i \in 1..Len(data) :
                            data[i].performance_grade = "S"
                              \/ data[i].performance_grade = "A" })
    IN  [totalImpressions |-> totalImpressions,
         avgAttention |-> NumTimes(avgAttention, 100),
         avgEntrance |-> NumTimes(avgEntrance, 100),
         topPerformers |-> topPerformers]

RECURSIVE groupMap(_)
\* EntranceRateByGroup: the Map built by data.forEach, as the sequence of
\* its entries (a Map keeps its keys in the order of their first insertion).
groupMap(data) ==
    IF data = <<>> THEN <<>>
    ELSE LET m == groupMap(SubSeq(data, 1, Len(data) - 1))
             item == data[Len(data)]
             at == { i \in 1..Len(m) : m[i].key = item.content_group }
         IN  IF at = {}
             THEN Append(m, [key |-> item.content_group,
                             sum |-> NumAdd(Num(0, 1), item.entrance_rate),
                             count |-> 1])
             ELSE [i \in 1..Len(m) |->
                     IF i \in at
                     THEN [key |-> m[i].key,
                           sum |-> NumAdd(m[i].sum, item.entrance_rate),
                           count |-> m[i].count + 1]
                     ELSE m[i]]

Sign(a, b) == IF NumLess(a, b) THEN -1 ELSE IF NumLess(b, a) THEN 1 ELSE 0

ByAverageAscending(a, b) == Sign(a.average_entrance_rate, b.average_entrance_rate)

\* (a, b) => b.average_entrance_rate - a.average_entrance_rate
ByAverageDescending(a, b) == Sign(b.average_entrance_rate, a.average_entrance_rate)

GroupEntryUnscaled(e) ==
    [content_group |-> e.key, average_entrance_rate |-> NumDiv(e.sum, e.count)]

\* ([group, stats]) => ({ content_group, average_entrance_rate })
GroupEntry(e) ==
    [content_group |-> e.key,
     average_entrance_rate |-> NumTimes(NumDiv(e.sum, e.count), 100)]

\* EntranceRateByGroup: chartData (the results the sort can give)
EntranceRateByGroup(data) ==
    LET m == groupMap(data)
        entries == [i \in 1..Len(m) |-> GroupEntry(m[i])]
    IN  SortOutcomes(entries,
                     [i \in 1..Len(m), j \in 1..Len(m) |->
                         ByAverageDescending(entries[i], entries[j])])

SortKeys ==
    {"title", "content_group", "total_impressions", "attention_rate",
     "entrance_rate", "performance_grade"}

SortDirections == {"asc", "desc"}

\* gradeOrder = { S: 5, A: 4, B: 3, C: 2, D: 1 }; any other key is undefined.
gradeOrder(g) ==
    CASE g = "S" -> 5 [] g = "A" -> 4 [] g = "B" -> 3 [] g = "C" -> 2 [] g = "D" -> 1
      [] OTHER -> -1

IsUndefined(rank) == rank = -1

\* aVal < bVal for the values the comparator of sortedData compares; a
\* comparison with undefined is false.
ValLess(key, a, b) ==
    CASE key \in {"title", "content_group"} -> StrLess(a[key], b[key])
      [] key = "total_impressions" -> a[key] < b[key]
      [] key \in {"attention_rate", "entrance_rate"} -> NumLess(a[key], b[key])
      [] OTHER ->
            LET aVal == gradeOrder(a.performance_grade)
                bVal == gradeOrder(b.performance_grade)
            IN  ~IsUndefined(aVal) /\ ~IsUndefined(bVal) /\ aVal < bVal

\* The comparator of sortedData.
compare(key, dir, a, b) ==
    IF ValLess(key, a, b) THEN (IF dir = "asc" THEN -1 ELSE 1)
    ELSE IF ValLess(key, b, a) THEN (IF dir = "asc" THEN 1 ELSE -1)
    ELSE 0

\* PerformanceLeaderboard: sortedData (the results the sort can give)
SortedData(data, key, dir) ==
    SortOutcomes(data,
                 [i \in 1..Len(data), j \in 1..Len(data) |->
                     compare(key, dir, data[i], data[j])])

\* The page renders the rows of a successful /api/performance read: the
\* hook's select converts them and each component recomputes its memo.
Render(rows, key, dir) ==
    /\ kpis' = rows
    /\ performanceData' = select(rows)
    /\ stats' = DashboardStats(select(rows))
    /\ chartData' \in EntranceRateByGroup(select(rows))
    /\ sortedData' \in SortedData(select(rows), key, dir)

\* A later read of /api/performance answers with no rows, or with one more
\* row than before.
NextRows == {<<>>} \cup { Append(kpis, r) : r \in IF Len(kpis) < MaxRows THEN Kpis ELSE {} }

NewData(rows) ==
    /\ rows # kpis
    /\ Render(rows, sortKey, sortDirection)
    /\ UNCHANGED <<sortKey, sortDirection>>
    /\ UNCHANGED <<storeVars, apiVars, uiVars>>

handleSortKeepsDirection(key) ==
    /\ IF sortKey = key
       THEN /\ sortDirection' = (IF sortDirection = "asc" THEN "desc" ELSE "asc")
            /\ UNCHANGED sortKey
       ELSE /\ sortKey' = key
            /\ UNCHANGED sortDirection
    /\ sortedData' \in SortedData(performanceData, sortKey', sortDirection')
    /\ UNCHANGED <<kpis, performanceData, stats, chartData>>
    /\ UNCHANGED <<storeVars, apiVars, uiVars>>

\* handleSort: the same key toggles the direction, a new key starts
\* descending; sortedData is recomputed.
handleSort(key) ==
    /\ IF sortKey = key
       THEN /\ sortDirection' = (IF sortDirection = "asc" THEN "desc" ELSE "asc")
            /\ UNCHANGED sortKey
       ELSE /\ sortKey' = key
            /\ sortDirection' = "desc"
    /\ sortedData' \in SortedData(performanceData, sortKey', sortDirection')
    /\ UNCHANGED <<kpis, performanceData, stats, chartData>>
    /\ UNCHANGED <<storeVars, apiVars, uiVars>>

\* onClick={() => handleSort(key)} on a column header: the click is noted
\* and handleSort runs.
LastTwo(seq) == IF Len(seq) > 2 THEN SubSeq(seq, Len(seq) - 1, Len(seq)) ELSE seq

ClickHeader(key) ==
    /\ handleSort(key)
    /\ clicks' = LastTwo(Append(clicks, key))

\* The dashboard components as first rendered with the given rows.
DashInit(rows) ==
    /\ kpis = rows
    /\ performanceData = select(rows)
    /\ stats = DashboardStats(select(rows))
    /\ chartData \in EntranceRateByGroup(select(rows))
    /\ sortKey = "total_impressions"
    /\ sortDirection = "desc"
    /\ sortedData \in SortedData(select(rows), "total_impressions", "desc")

(***************************************************************************)
(* Index page: what it renders for the state of usePerformanceData()       *)
(***************************************************************************)
\* The rows behind the two read payloads of the cache model.
FetchRows(tag) ==
    IF tag = "rows" THEN [i \in 1..1 |-> CHOOSE r \in Kpis : r.content_id = "c1"] ELSE <<>>

isLoading(q) == q.status = "pending" /\ q.fetchStatus = "fetching"

isError(q) == q.status = "error"

\* {!isLoading && !isError && performanceData && (...)}: an empty array is
\* truthy.
ShowsDataContent ==
    LET q == query["performance"]
    IN  observers["performance"] /\ ~isLoading(q) /\ ~isError(q) /\ q.data # "none"

\* {!isLoading && !isError && (!performanceData || performanceData.length === 0) && (...)}
ShowsEmptyState ==
    LET q == query["performance"]
    IN  /\ observers["performance"] /\ ~isLoading(q) /\ ~isError(q)
        /\ q.data = "none" \/ Len(select(FetchRows(q.data))) = 0

\* The stats DashboardStats shows when the data content is rendered.
ShownStats == DashboardStats(select(FetchRows(query["performance"].data)))

(***************************************************************************)
(* Specifications                                                          *)
(***************************************************************************)
UiInit ==
    /\ isUploading = [c \in Cards |-> FALSE]
    /\ uploadResult = [c \in Cards |-> NoResultShown]
    /\ uploadMode = [c \in Cards |-> "replace"]
    /\ pending = [c \in Cards |-> NoPending]
    /\ query = [k \in Keys |-> NoQuery]
    /\ observers = [k \in Keys |-> FALSE]
    /\ superseded = [k \in Keys |-> 0]
    /\ issued = <<>>
    /\ invalidated = <<>>

\* The store as created and the dashboard components not yet given rows.
ViewInit == StoreInit /\ DashInit(<<>>) /\ clicks = <<>>

Init ==
    /\ apiCall = NoCall
    /\ apiResult = NoResult
    /\ UiInit
    /\ ViewInit

ApiInit ==
    /\ apiCall \in ApiInputs
    /\ apiResult = NoResult
    /\ UiInit
    /\ ViewInit

\* Inputs of the user interface: the files a user picks and what the
\* network does with a request.
PickedFiles ==
    {NoFile} \cup [name : FileNames, size : {LargeFileBytes + 1}]

UploadNet ==
    { n \in NetOutcomes(UploadPayloads) :
        \/ n.t \in {"timeout", "network"}
        \/ n.t = "reply" /\ n.status = 200 /\ n.body.success /\ n.body.message = <<>>
             /\ n.body.data \in {"clean", "rowErrors"}
        \/ n.t = "reply" /\ n.status = 200 /\ ~n.body.success
             /\ n.body.message # <<>> /\ n.body.data = "null" }

FetchNet ==
    { n \in NetOutcomes(FetchPayloads) :
        \/ n.t \in {"timeout"}
        \/ n.t = "reply" /\ n.status = 200 /\ n.body.success /\ n.body.message = <<>>
             /\ n.body.data # "null"
        \/ n.t = "reply" /\ n.status = 200 /\ ~n.body.success
             /\ n.body.message # <<>> /\ n.body.data = "null" }

Next ==
    \/ \E c \in Cards, file \in PickedFiles : HandleFileSelect(c, file)
    \/ \E c \in Cards, net \in UploadNet : UploadSettle(c, net)
    \/ \E c \in Cards, m \in UploadModes : SetUploadMode(c, m)
    \/ \E c \in Cards : DismissResult(c)
    \/ \E k \in Keys : Read(k)
    \/ \E k \in Keys : Unmount(k)
    \/ \E k \in Keys, net \in FetchNet : FetchSettle(k, net)
    \/ \E k \in Keys : SupersededSettle(k)
    \/ \E k \in Keys : Gc(k)
    \/ WindowFocus
    \/ Reconnect
    \/ Tick

\* The whole page: both cards and every query.
Spec == Init /\ [][Next]_vars

\* One call of an API function.
SpecApi == ApiInit /\ [][ApiRun]_vars

\* The two upload cards on a page that mounts no query.
CardsNext ==
    \/ \E c \in Cards, file \in PickedFiles : HandleFileSelect(c, file)
    \/ \E c \in Cards, net \in UploadNet : UploadSettle(c, net)
    \/ \E c \in Cards, m \in UploadModes : SetUploadMode(c, m)
    \/ \E c \in Cards : DismissResult(c)

SpecCards == Init /\ [][CardsNext]_vars

\* The page with one card in use and one query in the cache at a time (a
\* card is in use from the first change of its state until it is back in
\* its initial state; a query is in the cache from its first read until it
\* is collected). Which card and which query may change during a run.
CardInUse(c) ==
    isUploading[c] \/ uploadResult[c].shown \/ uploadMode[c] # "replace" \/ pending[c].active

InCache(k) == Exists(query[k]) \/ observers[k] \/ superseded[k] > 0

Focused ==
    /\ \A c, d \in Cards : CardInUse(c) /\ CardInUse(d) => c = d
    /\ \A j, k \in Keys : InCache(j) /\ InCache(k) => j = k

CacheNext ==
    \/ \E c \in Cards, file \in PickedFiles : HandleFileSelect(c, file) /\ Focused'
    \/ \E c \in Cards, net \in UploadNet : UploadSettle(c, net) /\ Focused'
    \/ \E c \in Cards, m \in UploadModes : SetUploadMode(c, m) /\ Focused'
    \/ \E c \in Cards : DismissResult(c) /\ Focused'
    \/ \E k \in Keys : Read(k) /\ Focused'
    \/ \E k \in Keys : Unmount(k) /\ Focused'
    \/ \E k \in Keys, net \in FetchNet : FetchSettle(k, net) /\ Focused'
    \/ \E k \in Keys : SupersededSettle(k) /\ Focused'
    \/ \E k \in Keys : Gc(k) /\ Focused'
    \/ WindowFocus /\ Focused'
    \/ Reconnect /\ Focused'
    \/ Tick /\ Focused'

SpecCache == Init /\ [][CacheNext]_vars

\* The two cards with the scheduling the code relies on: every upload request
\* has a timeout (60 or 120 s), so its promise settles, and the event loop
\* then runs the rest of handleFileSelect.
SpecCardsLive ==
    /\ Init
    /\ [][CardsNext]_vars
    /\ \A c \in Cards : WF_vars(\E net \in UploadNet : UploadSettle(c, net))

\* The upload cards and the store that says whether they are shown.
StoreNext ==
    \/ \E c \in Cards, file \in PickedFiles : HandleFileSelect(c, file)
    \/ \E c \in Cards, net \in UploadNet : UploadSettle(c, net)
    \/ \E c \in Cards, m \in UploadModes : SetUploadMode(c, m)
    \/ \E c \in Cards : DismissResult(c)
    \/ \E b \in BOOLEAN : setHasData(b) /\ UNCHANGED <<dashVars, clicks, apiVars, uiVars>>
    \/ \E show \in BOOLEAN :
          setShowUploadCards(show) /\ UNCHANGED <<dashVars, clicks, apiVars, uiVars>>

SpecStore == Init /\ [][StoreNext]_vars

\* The dashboard components rendered with some rows.
ViewSpecInit ==
    /\ apiCall = NoCall
    /\ apiResult = NoResult
    /\ UiInit
    /\ StoreInit
    /\ \E rows \in RowSeqs : DashInit(rows)
    /\ clicks = <<>>

ViewNext ==
    \/ \E rows \in NextRows : NewData(rows) /\ UNCHANGED clicks
    \/ \E key \in SortKeys : handleSort(key) /\ UNCHANGED clicks

SpecView == ViewSpecInit /\ [][ViewNext]_vars

\* The leaderboard rendered with a few rows, and the user clicking on its
\* column headers.
MaxSortRows == 2

SortInit ==
    /\ apiCall = NoCall
    /\ apiResult = NoResult
    /\ UiInit
    /\ StoreInit
    /\ \E rows \in {r \in RowSeqs : Len(r) <= MaxSortRows} : DashInit(rows)
    /\ clicks = <<>>

SortNext == \E key \in SortKeys : ClickHeader(key)

SpecSort == SortInit /\ [][SortNext]_vars

(***************************************************************************)
(* Claims about the API client, checked under SpecApi                      *)
(***************************************************************************)
TransportFailure(net) ==
    net.t \in {"timeout", "network", "abort"} \/ (net.t = "reply" /\ net.status >= 300)

C7_FetchUnwrapsEnvelope ==
    (apiCall.done /\ apiCall.fn \in FetchFunctions) =>
        LET net == apiCall.net
            res == apiResult.result
            good == net.t = "reply" /\ net.status = 200
        IN  /\ res.ok => (good /\ net.body.success /\ net.body.data # "null"
                          /\ res.data = net.body.data)
            /\ (TransportFailure(net) \/ (good /\ ~net.body.success)) => ~res.ok
            /\ (~res.ok /\ net.t = "reply" /\ net.body.message # <<>>) =>
                  Contains(res.message, net.body.message)

C7_Witness ==
    /\ apiCall.done
    /\ apiCall.fn = "fetchGroupPerformance"
    /\ apiCall.net.t = "reply"
    /\ apiCall.net.status = 500
    /\ apiCall.net.body.message = <<"quota exceeded">>
    /\ apiResult.result =
         [ok |-> FALSE, data |-> "none",
          message |-> <<"Failed to fetch ", "group performance data", ": ",
                        "quota exceeded">>]

\* C8: both upload functions send timeout 120000 when file.size is strictly
\* above 10*1024*1024 bytes and 60000 otherwise (60000 at exactly the
\* threshold); every other request is sent with the 30000 base timeout.
C8_SizeDependentTimeout ==
    apiCall.done =>
        apiResult.request.timeout =
            IF apiCall.fn \in UploadFunctions
            THEN IF apiCall.file.size > 10485760 THEN 120000 ELSE 60000
            ELSE 30000

C8_Witness ==
    /\ apiCall.done
    /\ apiCall.fn = "uploadContentPerformanceCSV"
    /\ apiCall.file.size = 10485760
    /\ apiResult.request.timeout = 60000

\* C9 (as stated): the timeout of an upload above 10MB is double the base
\* timeout of the API client.
C9_LargeUploadDoublesBase ==
    (apiCall.done /\ apiCall.fn \in UploadFunctions /\ apiCall.file.size > 10485760) =>
        apiResult.request.timeout = 2 * 30000

\* C9 (amended): the timeout of an upload above 10MB is 120000 ms, four
\* times the client's 30000 ms base timeout and double the 60000 ms timeout
\* of an upload of at most 10MB.
C9_LargeUploadDoublesSmallUpload ==
    (apiCall.done /\ apiCall.fn \in UploadFunctions /\ apiCall.file.size > 10485760) =>
        /\ apiResult.request.timeout = 4 * 30000
        /\ apiResult.request.timeout =
             2 * RequestOf(apiCall.fn, [apiCall.file EXCEPT !.size = 10485760]).timeout

C9_Witness ==
    /\ apiCall.done
    /\ apiCall.fn = "uploadPlayerHistoryCSV"
    /\ apiCall.file.size = 10485761
    /\ apiResult.request.timeout = 120000

(***************************************************************************)
(* Claims about the upload cards, checked under SpecCards                  *)
(***************************************************************************)
\* C1: when handleFileSelect gets a file whose name does not end in ".csv",
\* the handler sends no request and starts no upload (isUploading stays
\* false, nothing is awaited, the cache is not touched) and the card shows
\* the validation failure: success = false, "Invalid file type".
C1_NonCsvRejectedBeforeNetwork ==
    [][\A c \in Cards : \A file \in PickedFiles :
          ( /\ file # NoFile
            /\ ~( Len(file.name) >= 4
                  /\ SubSeq(file.name, Len(file.name) - 3, Len(file.name))
                       = <<".", "c", "s", "v">> )
            /\ HandleFileSelect(c, file) )
          => /\ issued' = <<>>
             /\ ~isUploading[c] /\ ~isUploading'[c]
             /\ pending' = pending
             /\ query' = query
             /\ uploadResult'[c].shown
             /\ ~uploadResult'[c].success
             /\ uploadResult'[c].message = <<"Invalid file type">>]_vars

C1_Witness ==
    \E c \in Cards :
        /\ uploadResult[c].shown
        /\ uploadResult[c].message = <<"Invalid file type">>
        /\ ~uploadResult[c].success
        /\ ~isUploading[c]
        /\ ~pending[c].active
        /\ issued = <<>>

\* C4: every upload request in flight carries, as a multipart field `mode`,
\* the upload mode that was selected on the card when the file was chosen.
C4_UploadRequestCarriesMode ==
    \A c \in Cards :
        pending[c].active =>
            \E i \in 1..Len(pending[c].request.formData) :
                /\ pending[c].request.formData[i].field = "mode"
                /\ pending[c].request.formData[i].value = pending[c].uploadMode

(***************************************************************************)
(* Claims about uploads and the query cache, checked under SpecCache       *)
(***************************************************************************)
Count(seq, x) == Cardinality({i \in 1..Len(seq) : seq[i] = x})

\* The step in which card c's awaited upload settles / starts.
UploadSettles(c) == pending[c].active /\ ~pending'[c].active

UploadStarts(c) == ~pending[c].active /\ pending'[c].active

C3_InvalidationAfterUploadResponse ==
    [][/\ invalidated' # <<>> =>
            \E c \in Cards :
                /\ UploadSettles(c)
                /\ uploadResult'[c].success
                /\ ~isUploading'[c]
                /\ invalidated' = <<"performance", "group-performance", StatusKey(c)>>
                /\ \A i \in 1..Len(issued') :
                      /\ Count(invalidated', issued'[i]) = 1
                      /\ query'[issued'[i]].isInvalidated
                      /\ query'[issued'[i]].fetchStatus = "fetching"
       /\ \A c \in Cards :
            UploadStarts(c) =>
                /\ invalidated' = <<>>
                /\ issued' = <<UploadUrl(c)>>
                /\ query' = query]_vars

C3_Witness ==
    /\ \E c \in Cards :
          /\ invalidated = <<"performance", "group-performance", StatusKey(c)>>
          /\ uploadResult[c].success
          /\ ~pending[c].active
    /\ issued # <<>>
    /\ \A i \in 1..Len(issued) : query[issued[i]].fetchStatus = "fetching"

\* The part of C5 about uploads: an upload request is sent only by the step
\* that starts the upload, once, and the step that consumes its outcome
\* sends no further upload request and shows a result (a failure as
\* "Upload failed").
C5_UploadsSingleAttempt ==
    \A c \in Cards :
        /\ Count(issued', UploadUrl(c)) = (IF UploadStarts(c) THEN 1 ELSE 0)
        /\ UploadSettles(c) =>
              /\ uploadResult'[c].shown
              /\ ~isUploading'[c]
              /\ ~uploadResult'[c].success
                    => uploadResult'[c].message = <<"Upload failed">>

\* C5 (as stated): no retries: every read through usePerformanceData /
\* useGroupPerformanceData and every upload makes one request, and a failed
\* request is surfaced with no further automatic request.
C5_NoRetries ==
    [][/\ C5_UploadsSingleAttempt
       /\ \A k \in {"performance", "group-performance"} :
            query'[k].fetchFailureCount > query[k].fetchFailureCount =>
                /\ Count(issued', k) = 0
                /\ query'[k].status = "error"
                /\ query'[k].fetchStatus = "idle"]_vars

\* C5 (amended): every upload makes exactly one request and its failure is
\* shown at once; a read is not single-attempt: the hooks leave React
\* Query's retry at its default, so while the key is observed a failed
\* request is followed by a new one up to 3 times, and only the 4th failure
\* (or a failure with no observer left) is surfaced as the query's error,
\* with no further request in that step.
C5_UploadsOnceReadsRetried ==
    [][/\ C5_UploadsSingleAttempt
       /\ \A k \in {"performance", "group-performance"} :
            /\ query'[k].fetchFailureCount <= 4
            /\ query'[k].fetchFailureCount > query[k].fetchFailureCount =>
                  IF query[k].fetchFailureCount < 3 /\ observers[k]
                  THEN /\ issued' = <<k>>
                       /\ query'[k].fetchStatus = "fetching"
                       /\ query'[k].status = query[k].status
                  ELSE /\ issued' = <<>>
                       /\ query'[k].status = "error"
                       /\ query'[k].fetchStatus = "idle"]_vars

C5_Witness ==
    \E k \in {"performance", "group-performance"} :
        /\ query[k].fetchFailureCount = 3
        /\ query[k].fetchStatus = "fetching"
        /\ issued = <<k>>

\* C10 (as stated): idle -> loading -> {success, error}; success / error go
\* back to loading only on a manual refetch (a consumer reading the key) or
\* an invalidation; no other transition occurs.
C10_OnlyRefetchOrInvalidation ==
    [][\A k \in Keys :
          LET a == Phase(query[k])
              b == Phase(query'[k])
          IN  a # b =>
                \/ a = "idle" /\ b = "loading"
                \/ a = "loading" /\ b \in {"success", "error"}
                \/ a \in {"success", "error"} /\ b = "loading"
                     /\ (Count(invalidated', k) > 0 \/ Read(k))]_vars

\* C10 (amended): idle -> loading -> {success, error}: idle is left only
\* for loading, by a read; loading ends only in success or error, by its
\* request settling; success / error go back to loading on an invalidation
\* of an observed entry, or when the query layer refetches a stale entry:
\* on a consumer mounting, on reconnect, and, for the dataset-status keys
\* only, on window focus; an entry without consumers can also be dropped
\* back to idle by garbage collection. Nothing else changes the state.
C10_CacheStateMachine ==
    [][\A k \in Keys :
          LET a == Phase(query[k])
              b == Phase(query'[k])
          IN  /\ k \in {"performance", "group-performance"} => Count(OnFocusKeys, k) = 0
              /\ a # b =>
                \/ a = "idle" /\ b = "loading" /\ Read(k)
                \/ a = "loading" /\ b \in {"success", "error"}
                     /\ \E net \in FetchNet : FetchSettle(k, net)
                \/ a \in {"success", "error"} /\ b = "loading"
                     /\ \/ Count(invalidated', k) > 0 /\ observers[k]
                        \/ /\ query[k].isInvalidated \/ query[k].data = "none"
                                \/ query[k].age >= 30000
                           /\ \/ Read(k)
                              \/ Reconnect
                              \/ WindowFocus /\ Count(OnFocusKeys, k) = 1
                                   /\ k \notin {"performance", "group-performance"}
                \/ a \in {"success", "error"} /\ b = "idle" /\ ~observers[k] /\ Gc(k)]_vars

C10_Witness ==
    \E k \in Keys :
        /\ Phase(query[k]) = "loading"
        /\ query[k].status = "success"
        /\ ~query[k].isInvalidated
        /\ query[k].age >= 30000
        /\ issued = <<k>>

\* The backend requests of key k that are outstanding: the one of the
\* running fetch and those of fetches that were cancelled.
InFlight(k) == (IF query[k].fetchStatus = "fetching" THEN 1 ELSE 0) + superseded[k]

\* C11 (as stated): for every cache key at most one backend request is in
\* flight at any time.
C11_AtMostOneInFlight == \A k \in Keys : InFlight(k) <= 1

\* C11 (amended): a read or a stale refetch (mount, window focus,
\* reconnect) that arrives while the key is loading sends no request: it
\* joins the running fetch. While a fetch is running, a request for its key
\* is sent only (a) as the retry that follows a failed attempt, or (b) by
\* an invalidation of an observed entry that already holds data: that
\* cancels the running refetch and sends a new request, the earlier one
\* staying outstanding. No step sends two requests for one key.
C11_OnlyInvalidationSupersedes ==
    [][\A k \in Keys :
          /\ Count(issued', k) <= 1
          /\ (query[k].fetchStatus = "fetching" /\ Count(issued', k) = 1) =>
                \/ /\ invalidated' = <<>>
                   /\ query'[k].fetchFailureCount = query[k].fetchFailureCount + 1
                   /\ superseded' = superseded
                \/ /\ Count(invalidated', k) = 1
                   /\ query[k].data # "none"
                   /\ observers[k]
          /\ superseded'[k] > superseded[k] =>
                /\ Count(invalidated', k) = 1
                /\ query[k].fetchStatus = "fetching"
                /\ query[k].data # "none"
          /\ (query[k].fetchStatus = "fetching"
                /\ (Read(k) \/ WindowFocus \/ Reconnect)) => Count(issued', k) = 0]_vars

C11_Witness ==
    \E k \in Keys :
        /\ superseded[k] > 0
        /\ query[k].fetchStatus = "fetching"
        /\ issued = <<k>>
        /\ Count(invalidated, k) = 1

\* C12: for every key (`performance`, `group-performance` and the
\* dataset-status keys), a read of an entry whose last successful fetch is
\* less than 30 seconds old and that has not been invalidated since sends
\* no request and leaves the entry, hence the value served, as it is.
C12_FreshReadServedFromCache ==
    [][\A k \in Keys :
          (/\ query[k].data # "none"
           /\ query[k].age < 30000
           /\ ~query[k].isInvalidated
           /\ Read(k)) =>
              /\ issued' = <<>>
              /\ query' = query
              /\ superseded' = superseded]_vars

C12_Witness ==
    \E k \in Keys :
        /\ observers[k]
        /\ query[k].status = "success"
        /\ query[k].fetchStatus = "idle"
        /\ query[k].age > 0
        /\ query[k].age < 30000
        /\ ~query[k].isInvalidated
        /\ issued = <<>>

(***************************************************************************)
(* Claims about the upload store, checked under SpecStore                  *)
(***************************************************************************)
\* C13: the store starts with showUploadCards = TRUE and hasData = FALSE;
\* every setHasData(b) leaves hasData = b and showUploadCards = ~b, so that
\* whenever the last call on the store was setHasData(b) the cards are
\* shown exactly when b is false; and as long as only setHasData has been
\* called (nothing has set showUploadCards directly since), showUploadCards
\* = ~hasData.
C13_ShowCardsIsNotHasData ==
    [][/\ lastStoreCall.fn = "none" => (showUploadCards /\ ~hasData)
       /\ lastStoreCall'.fn = "setHasData" =>
             /\ hasData' = lastStoreCall'.arg
             /\ showUploadCards' = ~lastStoreCall'.arg
       /\ (showUploadCards = ~hasData /\ lastStoreCall'.fn # "setShowUploadCards")
             => showUploadCards' = ~hasData']_vars

C13_Witness ==
    /\ lastStoreCall = [fn |-> "setHasData", arg |-> TRUE]
    /\ hasData
    /\ ~showUploadCards

(***************************************************************************)
(* Claims about the data transforms, checked under SpecView                *)
(***************************************************************************)
\* The records of a group and the mean of their entrance rates times 100.
GroupMembers(data, g) == SelectSeq(data, LAMBDA r : r.content_group = g)

MeanTimes100(data, field) == NumTimes(NumDiv(SumNum(data, field), Len(data)), 100)

\* C14: for a non-empty collection, chartData has exactly one entry per
\* distinct content_group of the data (hence no more entries than distinct
\* groups), each entry's average_entrance_rate is the arithmetic mean of
\* its group's entrance_rate times 100, and the entries are in
\* non-increasing order of average_entrance_rate.
C14_GroupAggregation ==
    performanceData # <<>> =>
        LET groups == { performanceData[i].content_group : i \in 1..Len(performanceData) }
        IN  /\ Len(chartData) = Cardinality(groups)
            /\ Len(chartData) <= Len(performanceData)
            /\ { chartData[i].content_group : i \in 1..Len(chartData) } = groups
            /\ \A i \in 1..Len(chartData) :
                  chartData[i].average_entrance_rate =
                      MeanTimes100(GroupMembers(performanceData, chartData[i].content_group),
                                   "entrance_rate")
            /\ \A i, j \in 1..Len(chartData) :
                  i < j => ~NumLess(chartData[i].average_entrance_rate,
                                    chartData[j].average_entrance_rate)

C14_Witness ==
    /\ Len(performanceData) = 3
    /\ Len(chartData) = 2
    /\ NumLess(chartData[2].average_entrance_rate, chartData[1].average_entrance_rate)
    /\ chartData[1].content_group # performanceData[1].content_group

\* C15: a record that is the only member of its content_group gives that
\* group the average_entrance_rate entrance_rate * 100, exactly.
C15_SingletonGroupExact ==
    \A i \in 1..Len(performanceData) :
        (\A j \in 1..Len(performanceData) :
            performanceData[j].content_group = performanceData[i].content_group => j = i)
        => \E e \in 1..Len(chartData) :
              /\ chartData[e].content_group = performanceData[i].content_group
              /\ chartData[e].average_entrance_rate =
                    NumTimes(performanceData[i].entrance_rate, 100)

C15_Witness ==
    /\ Len(performanceData) = 3
    /\ \E e \in 1..Len(chartData) :
          /\ chartData[e].average_entrance_rate = Num(30, 1)
          /\ Len(GroupMembers(performanceData, chartData[e].content_group)) = 1
    /\ \E e \in 1..Len(chartData) :
          Len(GroupMembers(performanceData, chartData[e].content_group)) = 2

\* C16: with sortKey = performance_grade the leaderboard is ordered by the
\* rank S=5, A=4, B=3, C=2, D=1: descending, no record of a lower rank
\* precedes one of a higher rank (so every S precedes every D), ascending
\* the reverse; and sorting sortedData again with the same key and
\* direction gives sortedData back.
C16_GradeSortByRank ==
    sortKey = "performance_grade" =>
        /\ \A i, j \in 1..Len(sortedData) :
              LET gi == sortedData[i].performance_grade
                  gj == sortedData[j].performance_grade
              IN  (i < j /\ gi \in Grades /\ gj \in Grades) =>
                      IF sortDirection = "desc"
                      THEN gradeOrder(gi) >= gradeOrder(gj)
                      ELSE gradeOrder(gi) <= gradeOrder(gj)
        /\ sortDirection = "desc" =>
              \A i, j \in 1..Len(sortedData) :
                  (sortedData[i].performance_grade = "S"
                     /\ sortedData[j].performance_grade = "D") => i < j
        /\ SortedData(sortedData, sortKey, sortDirection) = {sortedData}

\* C17: for every sort key and direction, sortedData is a permutation of
\* the data, no record precedes one that the requested field and direction
\* order before it, and records with equal keys keep their input order.
C17_StablePermutationInOrder ==
    \E p \in Injections(Len(performanceData)) :
        /\ Len(sortedData) = Len(performanceData)
        /\ sortedData = Permuted(performanceData, p)
        /\ \A i, j \in 1..Len(sortedData) :
              i < j =>
                  /\ IF sortDirection = "asc"
                     THEN ~ValLess(sortKey, sortedData[j], sortedData[i])
                     ELSE ~ValLess(sortKey, sortedData[i], sortedData[j])
                  /\ (~ValLess(sortKey, sortedData[i], sortedData[j])
                        /\ ~ValLess(sortKey, sortedData[j], sortedData[i])) => p[i] < p[j]

RECURSIVE TotalOf(_, _)
TotalOf(data, field) ==
    IF data = <<>> THEN 0 ELSE data[1][field] + TotalOf(Tail(data), field)

RECURSIVE RateTotalOf(_, _)
RateTotalOf(data, field) ==
    IF data = <<>> THEN Num(0, 1) ELSE NumAdd(data[1][field], RateTotalOf(Tail(data), field))

\* C18: for a non-empty collection, stats.totalImpressions is the sum of
\* total_impressions, and avgAttention / avgEntrance are the arithmetic
\* means of attention_rate / entrance_rate times 100 (n * avg = 100 * sum);
\* impressions 10 and 25 give 35, attention rates 0.5 and 0.3 give 40.
C18_StatsSumsAndMeans ==
    performanceData # <<>> =>
        LET n == Len(performanceData)
        IN  /\ stats.totalImpressions = TotalOf(performanceData, "total_impressions")
            /\ ~IsNaN(stats.avgAttention) /\ ~IsNaN(stats.avgEntrance)
            /\ NumTimes(stats.avgAttention, n)
                  = NumTimes(RateTotalOf(performanceData, "attention_rate"), 100)
            /\ NumTimes(stats.avgEntrance, n)
                  = NumTimes(RateTotalOf(performanceData, "entrance_rate"), 100)
            /\ (/\ n = 2
                /\ performanceData[1].total_impressions = 10
                /\ performanceData[2].total_impressions = 25
                /\ performanceData[1].attention_rate = Num(1, 2)
                /\ performanceData[2].attention_rate = Num(3, 10))
                  => stats.totalImpressions = 35 /\ stats.avgAttention = Num(40, 1)

C18_Witness ==
    /\ Len(performanceData) = 2
    /\ performanceData[1].total_impressions = 10
    /\ performanceData[2].total_impressions = 25
    /\ performanceData[1].attention_rate = Num(1, 2)
    /\ performanceData[2].attention_rate = Num(3, 10)
    /\ stats.totalImpressions = 35
    /\ stats.avgAttention = Num(40, 1)

\* C19: in every reachable state of the Index page the summary statistics
\* are not rendered for an empty collection: whenever the data content
\* (with DashboardStats) is rendered the collection is non-empty and the
\* averages are numbers, and an empty read result shows the empty state
\* only.
C19_NoStatsForEmptyData ==
    /\ ShowsDataContent =>
          /\ Len(select(FetchRows(query["performance"].data))) > 0
          /\ ~IsNaN(ShownStats.avgAttention)
          /\ ~IsNaN(ShownStats.avgEntrance)
    /\ ~(ShowsEmptyState /\ ShowsDataContent)

\* C20: the conversion copies the seven fields of each backend row
\* unchanged, and every record handed to the components has a
\* performance_grade in {S, A, B, C, D}.
C20_ConvertCopiesAndValidatesGrade ==
    /\ Len(performanceData) = Len(kpis)
    /\ \A i \in 1..Len(kpis) :
          /\ DOMAIN performanceData[i] =
                {"content_id", "title", "content_group", "total_impressions",
                 "attention_rate", "entrance_rate", "performance_grade"}
          /\ \A f \in DOMAIN performanceData[i] \ {"performance_grade"} :
                performanceData[i][f] = kpis[i][f]
          /\ performanceData[i].performance_grade \in Grades

(***************************************************************************)
(* Further claims about the upload cards, checked under SpecCards          *)
(***************************************************************************)
\* The network outcomes for which the upload function returns a payload.
UploadSucceeds(net) ==
    net.t = "reply" /\ net.status = 200 /\ net.body.success /\ net.body.data # "null"

SkippedWarning == <<" row(s) were skipped due to validation errors.">>

CsvFile == [name |-> <<"a">> \o CsvSuffix, size |-> LargeFileBytes + 1]

\* C22: whatever the outcome of the upload request (payload returned,
\* backend failure, connection failure, timeout), the step that consumes it
\* leaves the card not uploading and showing a result, a failure being
\* shown as "Upload failed" with the error's message; and every upload that
\* is started is followed by a state in which the card is not uploading,
\* shows a result and accepts a new file.
C22_UploadAlwaysEndsInteractive ==
    /\ [][\A c \in Cards : \A net \in UploadNet :
             UploadSettle(c, net) =>
                 /\ ~isUploading'[c]
                 /\ uploadResult'[c].shown
                 /\ ~UploadSucceeds(net) =>
                       /\ ~uploadResult'[c].success
                       /\ uploadResult'[c].message = <<"Upload failed">>
                       /\ uploadResult'[c].details # <<>>
                 /\ \A d \in Cards \ {c} :
                       isUploading'[d] = isUploading[d]]_vars
    /\ \A c \in Cards :
          isUploading[c] ~>
              ( /\ ~isUploading[c]
                /\ uploadResult[c].shown
                /\ ENABLED HandleFileSelect(c, CsvFile) )

C22_Witness ==
    \E c \in Cards :
        /\ ~isUploading[c]
        /\ ~pending[c].active
        /\ uploadResult[c].shown
        /\ ~uploadResult[c].success
        /\ uploadResult[c].message = <<"Upload failed">>
        /\ uploadResult[c].details = UploadTimeoutMessage

(***************************************************************************)
(* Further claims about the dashboard components, checked under SpecView   *)
(***************************************************************************)
\* The derived values are the ones computed from the current collection,
\* and that collection, the sort key and the direction leave one value each.
DerivedFromSource ==
    /\ performanceData = select(kpis)
    /\ stats = DashboardStats(performanceData)
    /\ EntranceRateByGroup(performanceData) = {chartData}
    /\ SortedData(performanceData, sortKey, sortDirection) = {sortedData}

Toggled(d) == IF d = "asc" THEN "desc" ELSE "asc"

\* What a click on column k does to the sort state. Two clicks on the
\* current column toggle the direction twice, which restores it.
SortStateSteps ==
    /\ \A d \in SortDirections : Toggled(d) \in SortDirections /\ Toggled(Toggled(d)) = d
    /\ \A k \in SortKeys :
          ClickHeader(k) =>
              /\ k = sortKey =>
                    /\ sortKey' = sortKey
                    /\ sortDirection' = Toggled(sortDirection)
              /\ k # sortKey =>
                    /\ sortKey' = k
                    /\ sortDirection' = "desc"

SortStateStarts == clicks = <<>> => sortKey = "total_impressions" /\ sortDirection = "desc"

\* C24 (as stated): the sort state starts at (total_impressions, desc); a
\* click on the current column keeps the key and toggles the direction, a
\* click on another column selects it, descending; hence the direction is
\* asc only if the last two clicks were on the same column.
C24_AscOnlyAfterTwoClicksOnAColumn ==
    /\ [][SortStateSteps]_vars
    /\ []SortStateStarts
    /\ [](sortDirection = "asc" => Len(clicks) = 2 /\ clicks[1] = clicks[2])

\* C24 (amended): the same start and the same steps; the direction is asc
\* only if the last click was on the column that was the sort key before
\* it: the last two clicks were on the same column, or the only click so
\* far was on total_impressions, the initial sort key. Two consecutive
\* clicks on the current column restore key and direction.
C24_SortStateMachine ==
    /\ [][SortStateSteps]_vars
    /\ []SortStateStarts
    /\ [](sortDirection = "asc" =>
            \/ Len(clicks) = 2 /\ clicks[1] = clicks[2] /\ sortKey = clicks[2]
            \/ clicks = <<"total_impressions">> /\ sortKey = "total_impressions")
    /\ [](clicks # <<>> => sortKey = clicks[Len(clicks)])

C24_Witness ==
    /\ clicks = <<"title", "title">>
    /\ sortKey = "title"
    /\ sortDirection = "asc"
    /\ Len(sortedData) = 2

(***************************************************************************)
(* Claims about the two cards side by side, checked under SpecCards        *)
(***************************************************************************)
\* The state of one card.
CardState(c) == <<isUploading[c], uploadMode[c], uploadResult[c], pending[c]>>

\* The mode a success message names.
NamesMode(message, mode) ==
    \/ message = <<"Successfully uploaded ", "2", " record(s) using ", mode, " mode">>
    \/ message = <<"Upload completed (", mode, " mode): ", "1",
                   " record(s) processed successfully">>

\* C25: a card has an upload in flight exactly while isUploading; while it
\* is in flight no second upload of that card starts and the card's mode
\* does not change, so that the success message names the mode that was
\* selected when the upload started; a step of one card leaves the other
\* card's isUploading, mode, result and upload untouched, also while that
\* other card is uploading.
C25_OneUploadPerCardModeFrozen ==
    /\ [](\A c \in Cards :
            /\ pending[c].active = isUploading[c]
            /\ isUploading[c] => pending[c].uploadMode = uploadMode[c])
    /\ [][\A c \in Cards :
            /\ isUploading[c] =>
                  /\ uploadMode'[c] = uploadMode[c]
                  /\ Count(issued', UploadUrl(c)) = 0
                  /\ pending'[c].active => pending'[c] = pending[c]
            /\ UploadStarts(c) =>
                  /\ ~isUploading[c] /\ isUploading'[c]
                  /\ pending'[c].uploadMode = uploadMode[c]
                  /\ issued' = <<UploadUrl(c)>>
            /\ (UploadSettles(c) /\ uploadResult'[c].success) =>
                  /\ NamesMode(uploadResult'[c].message, pending[c].uploadMode)
                  /\ NamesMode(uploadResult'[c].message, uploadMode'[c])
            /\ CardState(c)' # CardState(c) =>
                  \A d \in Cards \ {c} : CardState(d)' = CardState(d)]_vars

C25_Witness ==
    /\ isUploading["player-history"]
    /\ pending["player-history"].active
    /\ pending["player-history"].uploadMode = "replace"
    /\ isUploading["content-performance"]
    /\ pending["content-performance"].active
    /\ pending["content-performance"].uploadMode = "append"
    /\ uploadMode["content-performance"] = "append"

(***************************************************************************)
(* Claims about what an upload invalidates, checked under SpecCache        *)
(***************************************************************************)
\* The cache entry of key k and the requests of that key are left alone.
Untouched(k) ==
    /\ query'[k] = query[k]
    /\ superseded'[k] = superseded[k]
    /\ Count(issued', k) = 0
    /\ Count(invalidated', k) = 0

\* C26: a call of handleFileSelect with no file or with a name that does
\* not end in ".csv", the start of an upload, and the end of an upload that
\* failed (backend failure, connection failure, timeout) pass no key to
\* invalidateQueries and leave every cache entry alone; the end of a
\* successful upload of card c passes exactly `performance`,
\* `group-performance` and the dataset-status key of c, marks the cached
\* entries of those keys, and leaves the dataset-status entry of the other
\* card alone.
C26_InvalidationFrame ==
    [][/\ \A c \in Cards : \A file \in PickedFiles :
            HandleFileSelect(c, file) =>
                /\ invalidated' = <<>>
                /\ \A k \in Keys : Untouched(k)
       /\ \A c \in Cards :
            UploadSettles(c) =>
                IF uploadResult'[c].success
                THEN /\ \A k \in Keys :
                          Count(invalidated', k)
                            = (IF k \in {"performance", "group-performance"}
                                    \/ k = StatusKey(c)
                               THEN 1 ELSE 0)
                     /\ Len(invalidated') = 3
                     /\ \A k \in Keys :
                          Count(invalidated', k) = 1 =>
                              query'[k].isInvalidated = (query[k] # NoQuery)
                     /\ \A d \in Cards \ {c} : Untouched(StatusKey(d))
                ELSE /\ invalidated' = <<>>
                     /\ \A k \in Keys : Untouched(k)]_vars

C26_Witness ==
    \E c \in Cards : \E d \in Cards \ {c} :
        /\ uploadResult[c].success
        /\ ~isUploading[c]
        /\ invalidated = <<"performance", "group-performance", StatusKey(c)>>
        /\ query[StatusKey(d)].status = "success"
        /\ query[StatusKey(d)].fetchStatus = "idle"
        /\ ~query[StatusKey(d)].isInvalidated
        /\ issued = <<>>

====
